---- MODULE Spec2Model ----
(***************************************************************************)
(* A model of forestry.trees.Tree: a labelled tree kept as an             *)
(* insertion-ordered dict of node records (_nodes), a defaultdict of      *)
(* child-key lists (_children) and the key of the root (root_key).        *)
(***************************************************************************)
EXTENDS Integers, Sequences, FiniteSets, TLC

\* ------------------------------------------------------------------ bounds
\* Longest batch handed to extend.
MaxPairs == 2
\* The most values a caller takes from one generator (a traversal of a tree
\* whose child lists loop never ends).
MaxYields == 5

\* ------------------------------------------------------------------ inputs
\* Python's None (the default of the key / parent / start_key arguments).
None == "None"
\* The module's sentinel object: distinct from every key.
EMPTY == "EMPTY"
\* The str keys callers use.
Keys == {"a", "b", "c"}
\* What a key argument can be: a str key or None.
KeyArgs == Keys \cup {None}
\* The payloads callers store: two distinct ones tell any two nodes apart.
Values == {1, 2}
Pairs == Keys \X Values
RECURSIVE SeqsUpTo(_, _)
SeqsUpTo(S, n) ==
    IF n = 0 THEN {<< >>}
    ELSE LET shorter == SeqsUpTo(S, n - 1)
         IN  shorter \cup {Append(s, x) : s \in {q \in shorter : Len(q) = n - 1}, x \in S}
Batches == SeqsUpTo(Pairs, MaxPairs)

\* ------------------------------------------------------------------- state
VARIABLES root_key, _nodes, _children, last, gen
vars == <<root_key, _nodes, _children, last, gen>>

\* The tree as one value, for the methods below.
Self == [root_key |-> root_key, nodes |-> _nodes, children |-> _children]

\* _Node(value, parent=EMPTY), stored under its key in the ordered dict.
_Node(key, value, parent) == [key |-> key, value |-> value, parent |-> parent]

\* The keys of the dict _nodes.
KeySet(ns) == {ns[i].key : i \in 1..Len(ns)}
\* self._nodes[key], for a key of the dict.
NodeAt(ns, key) == ns[CHOOSE i \in 1..Len(ns) : ns[i].key = key]

\* `x or y` on keys: None and the empty string are falsy.
Falsy(x) == x = None \/ x = ""
OrElse(x, y) == IF Falsy(x) THEN y ELSE x

\* Tree.__init__
Tree(key, has_value, value) ==
    [root_key |-> key,
     nodes    |-> IF has_value THEN << _Node(key, value, EMPTY) >> ELSE << >>,
     children |-> [k \in KeyArgs |-> << >>]]

\* Tree.__contains__
Contains(t, item) == item \in KeySet(t.nodes)
\* Tree.__getitem__ (for a key of the tree)
GetItem(t, item) == NodeAt(t.nodes, item).value
\* Tree.__len__
TreeLen(t) == Len(t.nodes)
\* Tree.is_empty: root_value is EMPTY, i.e. _nodes has no entry for root_key.
is_empty(t) == ~ Contains(t, t.root_key)

\* Tree.verify_key_in / verify_key_out: TRUE when no KeyError is raised.
verify_key_in(t, key) == Contains(t, key)
\* (mutant) the check left out: every key passes.
verify_key_out_unchecked(t, key) == TRUE
verify_key_out(t, key) == ~ Contains(t, key)

\* Tree.append: the tree afterwards and whether KeyError was raised.
append(t, key, value, parent) ==
    LET p == OrElse(parent, t.root_key)
    IN  IF ~ verify_key_out(t, key)
        THEN [tree |-> t, status |-> "KeyError"]
        ELSE [tree |-> [t EXCEPT !.nodes = Append(@, _Node(key, value, p)),
                                 !.children[t.root_key] = Append(@, key)],
              status |-> "ok"]

\* (mutant) a batch that carries on past a rejected pair and reports it at the end.
RECURSIVE extend_carrying_on(_, _, _)
extend_carrying_on(t, pairs, parent) ==
    IF pairs = << >> THEN [tree |-> t, status |-> "ok"]
    ELSE LET r == append(t, Head(pairs)[1], Head(pairs)[2], parent)
             rest == extend_carrying_on(r.tree, Tail(pairs), parent)
         IN  IF r.status = "ok" THEN rest ELSE [rest EXCEPT !.status = "KeyError"]

\* Tree.extend: append each pair in turn; the first KeyError ends the loop.
RECURSIVE extend(_, _, _)
extend(t, pairs, parent) ==
    IF pairs = << >> THEN [tree |-> t, status |-> "ok"]
    ELSE LET r == append(t, Head(pairs)[1], Head(pairs)[2], parent)
         IN  IF r.status = "ok" THEN extend(r.tree, Tail(pairs), parent) ELSE r

Ok(v) == [status |-> "ok", value |-> v]
KeyError == [status |-> "KeyError", value |-> << >>]
\* The loop never ends (the walk is in a cycle).
Diverges == [status |-> "diverges", value |-> << >>]

\* Tree.is_root, for a key of the tree.
is_root(t, key) == key = t.root_key

\* (mutant) the loop with the reverse flag ignored: always deq.append.
RECURSIVE ancestors_loop_unreversed(_, _, _, _, _)
ancestors_loop_unreversed(t, current_key, deq, reverse, fuel) ==
    IF ~ Contains(t, current_key) THEN [status |-> "KeyError", value |-> << >>]
    ELSE IF current_key = t.root_key THEN [status |-> "ok", value |-> deq]
    ELSE IF fuel = 0 THEN [status |-> "diverges", value |-> << >>]
    ELSE LET next_key == NodeAt(t.nodes, current_key).parent
         IN  IF ~ Contains(t, next_key) THEN [status |-> "KeyError", value |-> << >>]
             ELSE ancestors_loop_unreversed(t, next_key,
                                            Append(deq, GetItem(t, next_key)),
                                            reverse, fuel - 1)

\* The while loop of Tree.ancestors. fuel counts the iterations left before
\* the walk must have revisited a key.
RECURSIVE ancestors_loop(_, _, _, _, _)
ancestors_loop(t, current_key, deq, reverse, fuel) ==
    IF ~ verify_key_in(t, current_key) THEN KeyError
    ELSE IF is_root(t, current_key) THEN Ok(deq)
    ELSE IF fuel = 0 THEN Diverges
    ELSE LET next_key == NodeAt(t.nodes, current_key).parent
         IN  IF ~ Contains(t, next_key) THEN KeyError
             ELSE ancestors_loop(t, next_key,
                                 IF reverse THEN << GetItem(t, next_key) >> \o deq
                                            ELSE Append(deq, GetItem(t, next_key)),
                                 reverse, fuel - 1)

\* Tree.ancestors
ancestors(t, key, reverse) ==
    IF ~ verify_key_in(t, key) THEN KeyError
    ELSE ancestors_loop(t, key, << >>, reverse, TreeLen(t))

\* Tree.path
path(t, key) ==
    LET a == ancestors(t, key, TRUE)
    IN  IF a.status = "ok" THEN Ok(a.value \o << GetItem(t, key) >>) ELSE a

\* Tree.parent
parent(t, key) ==
    IF ~ Contains(t, key) THEN KeyError
    ELSE LET parent_key == NodeAt(t.nodes, key).parent
         IN  IF ~ Contains(t, parent_key) THEN KeyError
             ELSE Ok(<< NodeAt(t.nodes, parent_key).value >>)

\* [self[k] for k in keys]
RECURSIVE ValuesOf(_, _)
ValuesOf(t, keys) ==
    IF keys = << >> THEN << >>
    ELSE << GetItem(t, Head(keys)) >> \o ValuesOf(t, Tail(keys))

\* Tree.children
children(t, key) ==
    IF ~ verify_key_in(t, key) THEN KeyError
    ELSE Ok(ValuesOf(t, t.children[key]))

\* preorder and levelorder are generator functions: the call runs nothing and
\* returns a generator object; each next() runs the body from where it was
\* suspended to the next yield, on the tree as it is then.
\* A generator's frame: pc is "new" before the first next(), "yield" while
\* suspended at its yield and "done" once the body has returned; start_key,
\* key and deq are the body's locals.
Frame(kind, pc, start_key, key, deq) ==
    [kind |-> kind, pc |-> pc, start_key |-> start_key, key |-> key, deq |-> deq]
NoFrame == Frame("none", "done", None, None, << >>)
Finished(f) == [f EXCEPT !.pc = "done", !.deq = << >>]

\* What next() gives: the frame afterwards and the value yielded, or
\* StopIteration.
Yield(f, v) == [frame |-> f, status |-> "ok", value |-> << v >>]
StopIteration(f) == [frame |-> Finished(f), status |-> "StopIteration", value |-> << >>]

\* Tree.preorder, the call.
preorder(t, start_key) == Frame("preorder", "new", start_key, None, << >>)

\* Tree.preorder, one next(): the first yields the start node's value; the
\* second runs the for loop, whose recursive calls build generators that are
\* never iterated, and returns.
preorder_next(t, f) ==
    IF f.pc = "new"
    THEN LET start == OrElse(f.start_key, t.root_key)
         IN  IF Contains(t, start)
             THEN Yield([f EXCEPT !.pc = "yield", !.start_key = start], GetItem(t, start))
             ELSE StopIteration([f EXCEPT !.start_key = start])
    ELSE StopIteration(f)

\* The head of the while loop of Tree.levelorder: popleft and yield.
levelorder_loop(t, f, deq) ==
    IF deq = << >> THEN StopIteration(f)
    ELSE IF ~ Contains(t, Head(deq))
         THEN [frame |-> Finished(f), status |-> "KeyError", value |-> << >>]
    ELSE Yield([f EXCEPT !.pc = "yield", !.key = Head(deq), !.deq = Tail(deq)],
               GetItem(t, Head(deq)))

\* Tree.levelorder, the call.
levelorder(t, start_key) == Frame("levelorder", "new", start_key, None, << >>)

\* Tree.levelorder, one next(): the first seeds the queue with the start key;
\* a later one resumes after the yield with deq.extend(self._children[key]).
levelorder_next(t, f) ==
    IF f.pc = "new"
    THEN LET start == OrElse(f.start_key, t.root_key)
         IN  IF Contains(t, start)
             THEN levelorder_loop(t, [f EXCEPT !.start_key = start], << start >>)
             ELSE StopIteration([f EXCEPT !.start_key = start])
    ELSE IF f.pc = "yield"
    THEN levelorder_loop(t, f, f.deq \o t.children[f.key])
    ELSE StopIteration(f)

\* ----------------------------------------------------------------- actions
\* last: the most recent call: its arguments, len() when it was made, and what
\* it returned (value: the list returned or yielded; for parent, the one value)
\* or raised (status).
Call(op, key, reverse, pairs, p, r) ==
    [op |-> op, key |-> key, reverse |-> reverse, pairs |-> pairs, parent |-> p,
     before |-> TreeLen(Self), status |-> r.status, value |-> r.value]
NoCall == [op |-> "new", key |-> None, reverse |-> FALSE, pairs |-> << >>,
           parent |-> None, before |-> 0, status |-> "ok", value |-> << >>]

\* gen: the generator the caller holds (the latest one made): its frame, len()
\* when it was made, and the values it has yielded so far.
NoGen == [frame |-> NoFrame, before |-> 0, out |-> << >>]

Becomes(t) ==
    /\ root_key' = t.root_key
    /\ _nodes' = t.nodes
    /\ _children' = t.children

\* Tree(), Tree(key), Tree(value=v) and Tree(key, value).
Init ==
    \E key \in KeyArgs, has_value \in BOOLEAN, value \in Values :
        /\ has_value \/ value = 1
        /\ root_key = Tree(key, has_value, value).root_key
        /\ _nodes = Tree(key, has_value, value).nodes
        /\ _children = Tree(key, has_value, value).children
        /\ last = NoCall
        /\ gen = NoGen

\* Tree(key, value) with a str key.
InitRooted == Init /\ root_key \in Keys /\ _nodes # << >>

\* A run is a script of calls on one tree. It ends at the first call that
\* raises KeyError or never returns: nothing in the module catches KeyError.
\* (StopIteration is how a generator ends; the caller's loop absorbs it.)
Running == last.status \in {"ok", "StopIteration"}

AppendOp(key, value, p) ==
    /\ Running
    /\ LET r == append(Self, key, value, p)
       IN  /\ Becomes(r.tree)
           /\ last' = Call("append", key, FALSE, << <<key, value>> >>, p,
                           [status |-> r.status, value |-> << >>])
           /\ UNCHANGED gen

ExtendOp(pairs, p) ==
    /\ Running
    /\ LET r == extend(Self, pairs, p)
       IN  /\ Becomes(r.tree)
           /\ last' = Call("extend", None, FALSE, pairs, p,
                           [status |-> r.status, value |-> << >>])
           /\ UNCHANGED gen

Query(op, key, reverse, r) ==
    /\ Running
    /\ last' = Call(op, key, reverse, << >>, None, r)
    /\ UNCHANGED <<root_key, _nodes, _children, gen>>

AncestorsOp(key, reverse) == Query("ancestors", key, reverse, ancestors(Self, key, reverse))
PathOp(key) == Query("path", key, FALSE, path(Self, key))
ParentOp(key) == Query("parent", key, FALSE, parent(Self, key))
ChildrenOp(key) == Query("children", key, FALSE, children(Self, key))

\* A call of a generator function: the caller now holds a new generator.
Generator(op, key, f) ==
    /\ Running
    /\ gen' = [frame |-> f, before |-> TreeLen(Self), out |-> << >>]
    /\ last' = Call(op, key, FALSE, << >>, None, Ok(<< >>))
    /\ UNCHANGED <<root_key, _nodes, _children>>

PreorderOp(key) == Generator("preorder", key, preorder(Self, key))
LevelorderOp(key) == Generator("levelorder", key, levelorder(Self, key))

\* next() on the generator the caller holds.
NextOp ==
    /\ Running
    /\ gen.frame.kind # "none"
    /\ Len(gen.out) < MaxYields
    /\ LET r == IF gen.frame.kind = "preorder" THEN preorder_next(Self, gen.frame)
                                               ELSE levelorder_next(Self, gen.frame)
       IN  /\ gen' = [gen EXCEPT !.frame = r.frame, !.out = @ \o r.value]
           /\ last' = Call("next", None, FALSE, << >>, None,
                           [status |-> r.status, value |-> r.value])
    /\ UNCHANGED <<root_key, _nodes, _children>>

\* Any construction, then appends.
NextAppend ==
    \E key \in Keys, value \in Values, p \in KeyArgs : AppendOp(key, value, p)
SpecAppend == Init /\ [][NextAppend]_vars

\* Tree(key, value), then appends and extends.
NextTree ==
    \/ \E key \in Keys, value \in Values, p \in KeyArgs : AppendOp(key, value, p)
    \/ \E pairs \in Batches, p \in KeyArgs : ExtendOp(pairs, p)
SpecTree == InitRooted /\ [][NextTree]_vars

\* Tree(key, value), then appends, then one extend.
NextExtend ==
    \/ \E key \in Keys, value \in Values, p \in KeyArgs :
          last.op # "extend" /\ AppendOp(key, value, p)
    \/ \E pairs \in Batches, p \in KeyArgs :
          last.op # "extend" /\ ExtendOp(pairs, p)
SpecExtend == InitRooted /\ [][NextExtend]_vars

\* Tree(key, value), then appends and the lookups.
NextRead ==
    \/ \E key \in Keys, value \in Values, p \in KeyArgs : AppendOp(key, value, p)
    \/ \E key \in KeyArgs, reverse \in BOOLEAN : AncestorsOp(key, reverse)
    \/ \E key \in KeyArgs : PathOp(key)
    \/ \E key \in KeyArgs : ParentOp(key)
    \/ \E key \in KeyArgs : ChildrenOp(key)
SpecRead == InitRooted /\ [][NextRead]_vars

\* Tree(key, value), then appends and preorder traversals, a next() at a time.
NextPreorder ==
    \/ \E key \in Keys, value \in Values, p \in KeyArgs : AppendOp(key, value, p)
    \/ \E key \in KeyArgs : PreorderOp(key)
    \/ NextOp
SpecPreorder == InitRooted /\ [][NextPreorder]_vars

\* Any of the four constructions, then appends of keys not yet in the tree
\* and level-order traversals, a next() at a time. (Under a None root a fourth
\* node fits.)
NextLevelorder ==
    \/ \E key \in Keys \ KeySet(_nodes), value \in Values, p \in KeyArgs :
           AppendOp(key, value, p)
    \/ \E key \in KeyArgs : LevelorderOp(key)
    \/ NextOp
SpecLevelorder == Init /\ [][NextLevelorder]_vars

\* -------------------------------------------------- what the properties read
\* The keys of _nodes in insertion order.
KeyOrder == [i \in 1..Len(_nodes) |-> _nodes[i].key]
InTree(k) == k \in KeySet(_nodes)
StoredParent(k) == NodeAt(_nodes, k).parent
StoredValue(k) == NodeAt(_nodes, k).value

\* The tree was made by Tree(key, value) and every later node was appended
\* under a key that was already there: the first entry is the root and every
\* other entry names an earlier one as its parent.
Built ==
    /\ _nodes # << >>
    /\ _nodes[1].key = root_key
    /\ _nodes[1].parent = EMPTY
    /\ \A i \in 2..Len(_nodes) : \E j \in 1..(i - 1) : _nodes[j].key = _nodes[i].parent

\* The keys whose stored parent is k, in the order they were appended.
ChildKeys(k) ==
    LET IsChild(x) == StoredParent(x) = k IN SelectSeq(KeyOrder, IsChild)

Reverse(s) == [i \in 1..Len(s) |-> s[Len(s) + 1 - i]]

\* The values of k's parent, grandparent, ... up to the root (in a Built tree).
RECURSIVE Up(_)
Up(k) ==
    IF StoredParent(k) = EMPTY THEN << >>
    ELSE << StoredValue(StoredParent(k)) >> \o Up(StoredParent(k))

\* Following the stored parent from k reaches the node whose parent is EMPTY
\* in at most n steps.
RECURSIVE ReachesRoot(_, _)
ReachesRoot(k, n) ==
    /\ InTree(k)
    /\ \/ StoredParent(k) = EMPTY
       \/ n > 0 /\ ReachesRoot(StoredParent(k), n - 1)

\* The preorder of the subtree at k (in a Built tree): k, then the preorder
\* of each child in insertion order.
RECURSIVE PreorderKeys(_)
RECURSIVE PreorderAll(_)
PreorderKeys(k) == << k >> \o PreorderAll(ChildKeys(k))
PreorderAll(ks) ==
    IF ks = << >> THEN << >> ELSE PreorderKeys(Head(ks)) \o PreorderAll(Tail(ks))

\* The breadth-first order from a queue (in a Built tree): dequeue a key,
\* enqueue its own children.
RECURSIVE BreadthFirst(_)
BreadthFirst(queue) ==
    IF queue = << >> THEN << >>
    ELSE << Head(queue) >> \o BreadthFirst(Tail(queue) \o ChildKeys(Head(queue)))

Stored(ks) == [i \in 1..Len(ks) |-> StoredValue(ks[i])]

\* ------------------------------------------------------------------ claims
\* C1: in a tree built by appends under existing parents, the child list of
\* every key k holds exactly the keys whose node record has parent k, each
\* once, in the order they were appended.
C1_ChildListsMatchParents ==
    Built => \A k \in KeySet(_nodes) : _children[k] = ChildKeys(k)

\* C2: an append on a non-empty tree that names a parent missing from the tree
\* is rejected, so every node after the root names a key of the tree as its
\* parent.
C2_NoDanglingParent ==
    (_nodes # << >> /\ _nodes[1].parent = EMPTY)
        => \A i \in 2..Len(_nodes) : InTree(_nodes[i].parent)

\* C3: append with a key that is already in the tree raises KeyError, whatever
\* the value and the parent, and leaves root_key, the node records and every
\* child list as they were.
C3_DuplicateKeyRejected ==
    [][(last'.op = "append" /\ InTree(last'.key))
          => (last'.status = "KeyError" /\ UNCHANGED <<root_key, _nodes, _children>>)]_vars
\* A duplicate append was rejected on a tree of several nodes.
C3_Witness ==
    /\ last.op = "append"
    /\ last.status = "KeyError"
    /\ Len(_nodes) >= 2
    /\ last.key = _nodes[2].key

\* The caller made the generator and ran it to its end with no append in
\* between, as list(t.preorder(s)) does: gen.out is that list.
Listed(kind) ==
    /\ gen.frame.kind = kind
    /\ gen.frame.pc = "done"
    /\ gen.before = Len(_nodes)

\* C4: in a tree built by appends under existing parents, preorder(s) yields
\* the value of s and then the preorder of each child of s in insertion order
\* (s defaults to the root).
C4_PreorderVisitsSubtree ==
    (Built /\ Listed("preorder") /\ InTree(gen.frame.start_key))
        => gen.out = Stored(PreorderKeys(gen.frame.start_key))

\* C5: in a tree built by appends under existing parents, levelorder() from
\* the root yields every value once in breadth-first order: a FIFO queue
\* seeded with the root, enqueueing each dequeued key's own children.
C5_LevelorderBreadthFirst ==
    (Built /\ Listed("levelorder") /\ gen.frame.start_key = root_key)
        => /\ last.status # "KeyError"
           /\ gen.out = Stored(BreadthFirst(<< root_key >>))

\* C6: after construction with a root and any appends, following the stored
\* parent from any key reaches the root in fewer than len() steps.
C6_ParentLinksReachRoot ==
    (_nodes # << >> /\ _nodes[1].parent = EMPTY)
        => \A k \in KeySet(_nodes) : ReachesRoot(k, Len(_nodes) - 1)

\* C7: a tree made by Tree() or Tree(key, value) either has no nodes and
\* is_empty() is true, or exactly one node has parent EMPTY, its key is
\* root_key, and is_empty() is false.
C7_EmptyOrSingleRoot ==
    (root_key = None \/ (_nodes # << >> /\ _nodes[1].parent = EMPTY))
        => \/ _nodes = << >> /\ is_empty(Self)
           \/ /\ Cardinality({i \in 1..Len(_nodes) : _nodes[i].parent = EMPTY}) = 1
              /\ InTree(root_key)
              /\ StoredParent(root_key) = EMPTY
              /\ ~ is_empty(Self)

\* C8: in a tree built by appends under existing parents, parent(key) returns
\* the value of key's parent for a non-root key, returns (does not raise) for
\* the root, and raises KeyError only for a key that is not in the tree.
C8_ParentOfRootReturns ==
    (Built /\ last.op = "parent")
        => IF ~ InTree(last.key) THEN last.status = "KeyError"
           ELSE /\ last.status = "ok"
                /\ last.key # root_key
                      => last.value = << StoredValue(StoredParent(last.key)) >>

\* C9: in a tree built by appends under existing parents, ancestors(k) is the
\* values of k's parent, grandparent, ... up to the root, nearest first;
\* with reverse=True the same values root first; and path(k) is the
\* root-first ancestors followed by k's own value.
C9_AncestorsNearestFirst ==
    (Built /\ InTree(last.key))
        => /\ last.op = "ancestors"
                => /\ last.status = "ok"
                   /\ last.value = IF last.reverse THEN Reverse(Up(last.key))
                                                   ELSE Up(last.key)
           /\ last.op = "path"
                => /\ last.status = "ok"
                   /\ last.value = Reverse(Up(last.key)) \o << StoredValue(last.key) >>
\* ancestors(k, reverse=True) answered root first for a node two levels down
\* whose two ancestors hold different values.
C9_Witness ==
    /\ Built
    /\ last.op = "ancestors"
    /\ last.reverse
    /\ Len(last.value) = 2
    /\ last.value = << StoredValue(root_key), StoredValue(StoredParent(last.key)) >>
    /\ last.value[1] # last.value[2]

\* The index of the first pair of the batch that append rejects: its key is
\* in the tree or is the key of an earlier pair (Len + 1 when there is none).
FirstRejected(ns, pairs) ==
    LET Rejected(i) == \/ pairs[i][1] \in KeySet(ns)
                       \/ \E j \in 1..(i - 1) : pairs[j][1] = pairs[i][1]
        bad == {i \in 1..Len(pairs) : Rejected(i)}
    IN  IF bad = {} THEN Len(pairs) + 1
        ELSE CHOOSE i \in bad : \A j \in bad : i <= j

\* C10: extend(pairs, parent) inserts the pairs before the first one append
\* rejects, in order, each as append would (record under the given parent or
\* the root, key at the end of the root's child list); it raises KeyError
\* exactly when a pair is rejected, and inserts neither that pair nor any
\* later one.
C10_ExtendIsRepeatedAppend ==
    [][last'.op = "extend" =>
        LET pairs == last'.pairs
            n == FirstRejected(_nodes, pairs)
            p == OrElse(last'.parent, root_key)
            added == [i \in 1..(n - 1) |-> _Node(pairs[i][1], pairs[i][2], p)]
            keys == [i \in 1..(n - 1) |-> pairs[i][1]]
        IN  /\ _nodes' = _nodes \o added
            /\ _children' = [_children EXCEPT ![root_key] = @ \o keys]
            /\ root_key' = root_key
            /\ last'.status = IF n <= Len(pairs) THEN "KeyError" ELSE "ok"]_vars
\* A batch of two whose second pair was rejected: the first pair stayed.
C10_Witness ==
    /\ last.op = "extend"
    /\ last.status = "KeyError"
    /\ Len(last.pairs) = 2
    /\ Len(_nodes) = last.before + 1
    /\ _nodes[Len(_nodes)].key = last.pairs[1][1]
    /\ _nodes[Len(_nodes)].value = last.pairs[1][2]
====
